---- MODULE Spec2Model ----
(***************************************************************************)
(* A model of blur's Markov graph (blur/markov/node.py, graph.py) and of   *)
(* the discrete chooser of blur/rand.py.                                   *)
(*                                                                         *)
(* Node objects are the identities 1..NumNodes; NoNode stands for None.    *)
(* A link is a record [target, weight]; link_list[n] is n.link_list.       *)
(* Weights are counted in thousandths (Unit = 1.0), the finest grain any   *)
(* operation of the graph rounds to.                                       *)
(***************************************************************************)
EXTENDS Integers, Sequences, FiniteSets, TLC

VARIABLES
    node_value,     \* Node.value of every node object
    node_list,      \* Graph.node_list: sequence of node identities
    link_list,      \* Node.link_list of every node object
    current_node,   \* Graph.current_node (NoNode = None)
    last,           \* the call made last: operation, arguments, outcome
    pre,            \* node_list, link_list, current_node before that call
    steps,          \* number of calls made so far
    order,          \* the locals of a running weighted_order call
    built_from,     \* the arguments from_string built the graph from
    roll            \* the locals of a running weighted_rand call

graph_vars == <<node_value, node_list, link_list, current_node>>
vars == <<node_value, node_list, link_list, current_node, last, pre, steps,
          order, built_from, roll>>

----------------------------------------------------------------------------
(* Bounds of the model *)

NumNodes == 3
MaxSteps == 3
MaxTargets == 2
MaxNodeList == 4
MaxTies == 2
MaxOptions == 3
MaxStrength == 2
MaxTokens == 3
MaxOffset == 2
MaxX == 4
MaxY == 2
MaxPoints == 3
AttemptCap == 3
MaxDraws == 2

Unit == 1000

Nodes == 1..NumNodes
NoNode == 0

\* Node.value
Values == {"a", "b"}
value(n) == node_value[n]

\* The weights passed to the link-adding calls: 0 and 1.0
ArgWeights == {0, Unit}

----------------------------------------------------------------------------
(* Helpers on sequences *)

Range(s) == {s[i] : i \in 1..Len(s)}

RECURSIVE SumWeights(_)
SumWeights(ll) ==
    IF ll = <<>> THEN 0 ELSE Head(ll).weight + SumWeights(Tail(ll))

\* The links of ll that do not point at n, in their order
Filter(ll, n) == SelectSeq(ll, LAMBDA l : l.target # n)

\* Index of the first link of ll whose target is t, 0 if there is none
FirstLinkTo(ll, t) ==
    IF \E i \in 1..Len(ll) : ll[i].target = t
    THEN CHOOSE i \in 1..Len(ll) :
            /\ ll[i].target = t
            /\ \A j \in 1..(i - 1) : ll[j].target # t
    ELSE 0

RemoveFirst(s, x) ==
    LET i == CHOOSE k \in 1..Len(s) :
                 s[k] = x /\ \A j \in 1..(k - 1) : s[j] # x
    IN  SubSeq(s, 1, i - 1) \o SubSeq(s, i + 1, Len(s))

----------------------------------------------------------------------------
(* Node (blur/markov/node.py).  Every operator takes the link lists of all *)
(* node objects and returns them as the call leaves them.                  *)

Link(target, weight) == [target |-> target, weight |-> weight]

\* Mutant of add_link_target: a new Link is appended without looking for
\* an existing link to the target.
add_link_target_append(links, self, target, weight) ==
    [links EXCEPT ![self] = Append(@, Link(target, weight))]

\* One pass of the body of add_link's loop: sum into the first link to
\* target, append a new Link when the inner for loop finds none.
add_link_target(links, self, target, weight) ==
    LET i == FirstLinkTo(links[self], target)
    IN  IF i > 0
        THEN [links EXCEPT ![self][i].weight = @ + weight]
        ELSE [links EXCEPT ![self] = Append(@, Link(target, weight))]

\* Node.add_link; targets is the generalized target_list
RECURSIVE add_link(_, _, _, _)
add_link(links, self, targets, weight) ==
    IF targets = <<>> THEN links
    ELSE add_link(add_link_target(links, self, Head(targets), weight),
                  self, Tail(targets), weight)

\* Node.add_link_to_self; source is the generalized list of sources
RECURSIVE add_link_to_self(_, _, _, _)
add_link_to_self(links, self, source, weight) ==
    IF source = <<>> THEN links
    ELSE add_link_to_self(add_link(links, Head(source), <<self>>, weight),
                          self, Tail(source), weight)

\* Mutant of add_reciprocal_link: the link back from the target is left
\* out.
RECURSIVE add_reciprocal_link_one_way(_, _, _, _)
add_reciprocal_link_one_way(links, self, target, weight) ==
    IF target = <<>> THEN links
    ELSE add_reciprocal_link_one_way(
             add_link(links, self, <<Head(target)>>, weight),
             self, Tail(target), weight)

\* Node.add_reciprocal_link
RECURSIVE add_reciprocal_link(_, _, _, _)
add_reciprocal_link(links, self, target, weight) ==
    IF target = <<>> THEN links
    ELSE LET t == Head(target)
             there == add_link(links, self, <<t>>, weight)
             back == add_link(there, t, <<self>>, weight)
         IN  add_reciprocal_link(back, self, Tail(target), weight)

\* The link of self that merge_links_from merges other_link into: the first
\* whose target (or target value) matches, 0 when the for loop falls through
MatchingLink(ll, other_link, merge_same_value_targets) ==
    LET Same(l) == IF merge_same_value_targets
                   THEN value(other_link.target) = value(l.target)
                   ELSE other_link.target = l.target
    IN  IF \E i \in 1..Len(ll) : Same(ll[i])
        THEN CHOOSE i \in 1..Len(ll) :
                 Same(ll[i]) /\ \A j \in 1..(i - 1) : ~Same(ll[j])
        ELSE 0

\* Node.merge_links_from, from the i-th link of other_node on.  The loop
\* reads other_node.link_list as it stands (self may be other_node).
RECURSIVE merge_links_loop(_, _, _, _, _)
merge_links_loop(links, self, other_node, merge_same_value_targets, i) ==
    IF i > Len(links[other_node]) THEN links
    ELSE LET other_link == links[other_node][i]
             m == MatchingLink(links[self], other_link,
                               merge_same_value_targets)
             next == IF m > 0
                     THEN [links EXCEPT
                             ![self][m].weight = @ + other_link.weight]
                     ELSE add_link(links, self, <<other_link.target>>,
                                   other_link.weight)
         IN  merge_links_loop(next, self, other_node,
                              merge_same_value_targets, i + 1)

merge_links_from(links, self, other_node, merge_same_value_targets) ==
    merge_links_loop(links, self, other_node, merge_same_value_targets, 1)

\* Node.remove_links_to_self
remove_links_to_self(links, self) ==
    [links EXCEPT ![self] = Filter(@, self)]

----------------------------------------------------------------------------
(* Graph (blur/markov/graph.py).  A graph state is a record               *)
(* [nodes, links]: node_list and the link lists of all node objects.      *)

G(nodes, links) == [nodes |-> nodes, links |-> links]

\* Mutant of remove_node: the node leaves node_list but the links that
\* point to it stay.
remove_node_keeping_links(g, node) ==
    IF node \notin Range(g.nodes) THEN g
    ELSE G(RemoveFirst(g.nodes, node), g.links)

\* Mutant of remove_node: the links to the node are stripped without
\* looking whether the node is in node_list.
remove_node_unguarded(g, node) ==
    LET rest == IF node \in Range(g.nodes) THEN RemoveFirst(g.nodes, node)
                ELSE g.nodes
    IN  G(rest, [n \in DOMAIN g.links |->
                   IF n \in Range(rest) THEN Filter(g.links[n], node)
                   ELSE g.links[n]])

\* Graph.remove_node
remove_node(g, node) ==
    IF node \notin Range(g.nodes) THEN g
    ELSE LET rest == RemoveFirst(g.nodes, node)
         IN  G(rest, [n \in DOMAIN g.links |->
                        IF n \in Range(rest) THEN Filter(g.links[n], node)
                        ELSE g.links[n]])

\* Mutant of remove_node_by_value: only the links to the nodes taken out of
\* node_list are pruned, not every link to a node of that value.
remove_node_by_value_by_identity(g, v) ==
    LET rest == SelectSeq(g.nodes, LAMBDA n : value(n) # v)
        gone == Range(g.nodes) \ Range(rest)
    IN  G(rest, [n \in DOMAIN g.links |->
                   IF n \in Range(rest)
                   THEN SelectSeq(g.links[n], LAMBDA l : l.target \notin gone)
                   ELSE g.links[n]])

\* Graph.remove_node_by_value
remove_node_by_value(g, v) ==
    LET rest == SelectSeq(g.nodes, LAMBDA n : value(n) # v)
    IN  G(rest, [n \in DOMAIN g.links |->
                   IF n \in Range(rest)
                   THEN SelectSeq(g.links[n], LAMBDA l : value(l.target) # v)
                   ELSE g.links[n]])

\* Mutant of merge_kill_links: the links of kill_node are appended to
\* keep_node's as they are, not merged by target.
merge_kill_links_appending(links, nodes, keep_node, kill_node, i) ==
    [links EXCEPT ![keep_node] = @ \o links[kill_node]]

\* First loop of merge_nodes, from the i-th link of kill_node on
RECURSIVE merge_kill_links(_, _, _, _, _)
merge_kill_links(links, nodes, keep_node, kill_node, i) ==
    IF i > Len(links[kill_node]) THEN links
    ELSE LET kill_link == links[kill_node][i]
             next == IF kill_link.target \in Range(nodes)
                     THEN add_link(links, keep_node, <<kill_link.target>>,
                                   kill_link.weight)
                     ELSE links
         IN  merge_kill_links(next, nodes, keep_node, kill_node, i + 1)

\* Second loop of merge_nodes, from the k-th node of node_list on: the
\* first link of node to kill_node is added to node's link to keep_node.
RECURSIVE redirect_links(_, _, _, _, _)
redirect_links(links, nodes, keep_node, kill_node, k) ==
    IF k > Len(nodes) THEN links
    ELSE LET node == nodes[k]
             i == FirstLinkTo(links[node], kill_node)
             next == IF i > 0
                     THEN add_link(links, node, <<keep_node>>,
                                   links[node][i].weight)
                     ELSE links
         IN  redirect_links(next, nodes, keep_node, kill_node, k + 1)

\* Graph.merge_nodes
merge_nodes(g, keep_node, kill_node) ==
    LET merged == merge_kill_links(g.links, g.nodes, keep_node, kill_node, 1)
        redirected == redirect_links(merged, g.nodes, keep_node, kill_node, 1)
    IN  remove_node(G(g.nodes, redirected), kill_node)

\* Graph.add_nodes; nodes is the generalized add_list
add_nodes(g, nodes) == G(g.nodes \o nodes, g.links)

\* round(x, 2) of x = num / den >= 0, in hundredths.  Which way round()
\* takes a product that is exactly halfway between two hundredths depends
\* on the representation error of the float product: tie_up leaves it open.
IsTie(num, den) == 2 * (num % den) = den
Round2(num, den, tie_up) ==
    LET q == num \div den
        r == num % den
    IN  IF 2 * r > den THEN q + 1
        ELSE IF 2 * r < den THEN q
        ELSE IF tie_up THEN q + 1 ELSE q

RECURSIVE GCD(_, _)
GCD(a, b) == IF b = 0 THEN a ELSE GCD(b, a % b)

\* The exact value of relative_link_weight * feather_weight * factor in
\* hundredths, as <<numerator, denominator>>, with
\* relative_link_weight = link_weight / neighbor_node_weight_sum and
\* feather_weight = neighbor_weight / node_weight_sum.  factor is the pair
\* <<numerator, denominator>>; every quotient is reduced before multiplying.
feather_product(link_weight, neighbor_node_weight_sum, neighbor_weight, node_weight_sum, factor) ==
    LET g1 == GCD(link_weight, neighbor_node_weight_sum)
        g2 == GCD(neighbor_weight, node_weight_sum)
    IN  <<(link_weight \div g1) * (neighbor_weight \div g2)
              * factor[1] * 100,
          (neighbor_node_weight_sum \div g1) * (node_weight_sum \div g2)
              * factor[2]>>

\* Whether the t-th tie of a call rounds up: ties is the call's oracle
TieUp(ties, t) == ties[((t - 1) % MaxTies) + 1]

\* Inner loop of feather_node over neighbor_node.link_list, from its j-th
\* link on; c holds the locals of feather_node and r the link lists, the
\* error raised (if any) and the number of ties rounded so far.
RECURSIVE inherit_links(_, _, _)
inherit_links(r, c, j) ==
    IF j > Len(r.links[c.neighbor_node]) THEN r
    ELSE LET neighbor_link == r.links[c.neighbor_node][j]
         IN  IF (~c.include_self) /\ neighbor_link.target = c.node
             THEN inherit_links(r, c, j + 1)
             ELSE IF c.neighbor_node_weight_sum = 0
             THEN [r EXCEPT !.err = "ZeroDivisionError"]
             ELSE LET x == feather_product(neighbor_link.weight,
                                           c.neighbor_node_weight_sum,
                                           c.neighbor_weight,
                                           c.node_weight_sum, c.factor)
                      tie == IsTie(x[1], x[2])
                      t == IF tie THEN r.ties + 1 ELSE r.ties
                      feathered_link_weight ==
                          (Unit \div 100) *
                              Round2(x[1], x[2], tie /\ TieUp(c.ties, t))
                  IN  inherit_links(
                          [r EXCEPT
                             !.links = add_link(r.links, c.node,
                                                <<neighbor_link.target>>,
                                                feathered_link_weight),
                             !.ties = t],
                          c, j + 1)

\* Outer loop of feather_node over the copy of node.link_list made when
\* the loop starts (its first size links), from the i-th on.  The copy
\* shares the Link objects, so each weight is read as it stands.
RECURSIVE feather_node_loop(_, _, _, _, _)
feather_node_loop(r, o, node_weight_sum, size, i) ==
    IF i > size THEN r
    ELSE IF node_weight_sum = 0
    THEN [r EXCEPT !.err = "ZeroDivisionError"]
    ELSE LET original_link == r.links[o.node][i]
             neighbor_node == original_link.target
             c == [node |-> o.node,
                   neighbor_node |-> neighbor_node,
                   neighbor_weight |-> original_link.weight,
                   node_weight_sum |-> node_weight_sum,
                   neighbor_node_weight_sum |->
                       SumWeights(r.links[neighbor_node]),
                   factor |-> o.factor,
                   include_self |-> o.include_self,
                   ties |-> o.ties]
             inherited == inherit_links(r, c, 1)
         IN  IF inherited.err # "none" THEN inherited
             ELSE feather_node_loop(inherited, o, node_weight_sum, size,
                                    i + 1)

\* Mutant of feather_node: links back to the node are inherited whatever
\* include_self says.
feather_node_including_self(r, o) ==
    feather_node_loop(r, [o EXCEPT !.include_self = TRUE],
                      SumWeights(r.links[o.node]), Len(r.links[o.node]), 1)

\* feather_node of Graph.feather_links; o holds the arguments of the call
feather_node(r, o) ==
    feather_node_loop(r, o, SumWeights(r.links[o.node]),
                      Len(r.links[o.node]), 1)

\* Graph.feather_links, from the k-th node of node_list on.  An error
\* leaves the links as the nodes feathered so far have them.
RECURSIVE feather_links_loop(_, _, _, _, _, _)
feather_links_loop(r, nodes, factor, include_self, ties, k) ==
    IF k > Len(nodes) \/ r.err # "none" THEN r
    ELSE feather_links_loop(
             feather_node(r, [node |-> nodes[k], factor |-> factor,
                              include_self |-> include_self,
                              ties |-> ties]),
             nodes, factor, include_self, ties, k + 1)

feather_links(g, factor, include_self, ties) ==
    feather_links_loop([links |-> g.links, err |-> "none", ties |-> 0],
                       g.nodes, factor, include_self, ties, 1)

----------------------------------------------------------------------------
(* Discrete chooser (blur/rand.py).  An option is a record                *)
(* [outcome, strength].  random.uniform(0, prob_sum) is a parameter: the  *)
(* sample is given doubled, so that the points halfway between two        *)
(* positions of the line segment are integers too.                        *)

Option(outcome, strength) == [outcome |-> outcome, strength |-> strength]

RECURSIVE SumStrengths(_)
SumStrengths(weights) ==
    IF weights = <<>> THEN 0
    ELSE Head(weights).strength + SumStrengths(Tail(weights))

\* Mutant of choice_scan: an option's stretch of the line is taken without
\* its right end.
RECURSIVE choice_scan_half_open(_, _, _, _)
choice_scan_half_open(weights, sample2, current_pos, i) ==
    IF i > Len(weights)
    THEN [kind |-> "AssertionError", index |-> 0, outcome |-> 0]
    ELSE IF /\ 2 * current_pos <= sample2
            /\ sample2 < 2 * (current_pos + weights[i].strength)
    THEN [kind |-> "return", index |-> i, outcome |-> weights[i].outcome]
    ELSE choice_scan_half_open(weights, sample2,
                               current_pos + weights[i].strength, i + 1)

\* The while loop of weighted_choice from index i (1-based) on
RECURSIVE choice_scan(_, _, _, _)
choice_scan(weights, sample2, current_pos, i) ==
    IF i > Len(weights)
    THEN [kind |-> "AssertionError", index |-> 0, outcome |-> 0]
    ELSE IF /\ 2 * current_pos <= sample2
            /\ sample2 <= 2 * (current_pos + weights[i].strength)
    THEN [kind |-> "return", index |-> i, outcome |-> weights[i].outcome]
    ELSE choice_scan(weights, sample2, current_pos + weights[i].strength,
                     i + 1)

\* weighted_choice, given the sample drawn when it gets that far
weighted_choice(weights, sample2) ==
    IF Len(weights) = 0
    THEN [kind |-> "ValueError", index |-> 0, outcome |-> 0]
    ELSE IF SumStrengths(weights) <= 0
    THEN [kind |-> "ProbabilityUndefinedError", index |-> 0, outcome |-> 0]
    ELSE choice_scan(weights, sample2, 0, 1)

\* The values random.uniform(0, prob_sum) is represented by, doubled: the
\* positions where an option's stretch of the line starts or ends, both
\* ends of [0, prob_sum], and the points halfway between any two of them.
Samples(weights) ==
    LET S == SumStrengths(weights)
        P == {SumStrengths(SubSeq(weights, 1, i)) : i \in 0..Len(weights)}
    IN  {p + q : p, q \in {x \in P : 0 <= x /\ x <= S}}

\* The list comprehension of Graph.pick
LinkOptions(ll) == [i \in 1..Len(ll) |-> Option(ll[i].target, ll[i].weight)]

----------------------------------------------------------------------------
(* The graph as a state machine: one action per call of the API.           *)

\* Argument lists (a single node is the list of that node alone)
NodeLists == UNION {[1..k -> Nodes] : k \in 1..MaxTargets}
SingleNode == {<<n>> : n \in Nodes}

\* factor of feather_links: the default 0.01, and 1
Factors == {<<1, 100>>, <<1, 1>>}

Call(op, args, err, result) ==
    [op |-> op, args |-> args, err |-> err, result |-> result]

Snapshot == [nodes |-> node_list, links |-> link_list,
             current |-> current_node]

NoSnapshot == [nodes |-> <<>>, links |-> <<>>, current |-> NoNode]

NoOrder == [pc |-> "idle", weights |-> <<>>, working_list |-> <<>>,
            output_list |-> <<>>, calls |-> 0]

NoRoll == [pc |-> "idle", weights |-> <<>>, attempt_count |-> 0,
           result |-> 0, sample |-> <<>>, via |-> "none"]

NoSource == [built |-> FALSE, words |-> <<>>, default |-> FALSE,
             distance_weights |-> <<>>, merge_same_words |-> FALSE]

\* Graph() or Graph([node_1, ..., node_N]) on freshly made nodes, of which
\* the odd ones have one value and the even ones another
Init ==
    /\ node_value = [n \in Nodes |-> IF n % 2 = 1 THEN "a" ELSE "b"]
    /\ \E k \in {0, NumNodes} : node_list = [i \in 1..k |-> i]
    /\ link_list = [n \in Nodes |-> <<>>]
    /\ current_node = NoNode
    /\ last = Call("Graph", <<>>, "none", NoNode)
    /\ pre = NoSnapshot
    /\ steps = 0
    /\ order = NoOrder
    /\ built_from = NoSource
    /\ roll = NoRoll

\* The record of a call
Did(op, args, err, result) ==
    /\ pre' = Snapshot
    /\ last' = Call(op, args, err, result)

\* A call counted against the bound on the length of a run
Counted ==
    /\ steps < MaxSteps
    /\ steps' = steps + 1
    /\ UNCHANGED <<node_value, order, built_from, roll>>

NodeCall(op, args, links) ==
    /\ Did(op, args, "none", NoNode)
    /\ link_list' = links
    /\ UNCHANGED <<node_list, current_node>>

AddLink ==
    /\ Counted
    /\ \E self \in Nodes, targets \in NodeLists, weight \in ArgWeights :
        NodeCall("add_link", <<self, targets, weight>>,
                 add_link(link_list, self, targets, weight))

AddLinkToSelf ==
    /\ Counted
    /\ \E self \in Nodes, source \in SingleNode, weight \in ArgWeights :
        NodeCall("add_link_to_self", <<self, source, weight>>,
                 add_link_to_self(link_list, self, source, weight))

AddReciprocalLink ==
    /\ Counted
    /\ \E self \in Nodes, target \in SingleNode, weight \in ArgWeights :
        NodeCall("add_reciprocal_link", <<self, target, weight>>,
                 add_reciprocal_link(link_list, self, target, weight))

MergeLinksFrom ==
    /\ Counted
    /\ \E self \in Nodes, other_node \in Nodes, by_value \in BOOLEAN :
        NodeCall("merge_links_from", <<self, other_node, by_value>>,
                 merge_links_from(link_list, self, other_node, by_value))

RemoveLinksToSelf ==
    /\ Counted
    /\ \E self \in Nodes :
        NodeCall("remove_links_to_self", <<self>>,
                 remove_links_to_self(link_list, self))

GraphCall(op, args, g) ==
    /\ Did(op, args, "none", NoNode)
    /\ node_list' = g.nodes
    /\ link_list' = g.links
    /\ UNCHANGED current_node

AddNodes ==
    /\ Counted
    /\ \E nodes \in NodeLists :
        /\ Len(node_list) + Len(nodes) <= MaxNodeList
        /\ GraphCall("add_nodes", <<nodes>>,
                     add_nodes(G(node_list, link_list), nodes))

MergeNodes ==
    /\ Counted
    /\ \E keep_node \in Nodes, kill_node \in Nodes :
        GraphCall("merge_nodes", <<keep_node, kill_node>>,
                  merge_nodes(G(node_list, link_list), keep_node, kill_node))

RemoveNode ==
    /\ Counted
    /\ \E node \in Nodes :
        GraphCall("remove_node", <<node>>,
                  remove_node(G(node_list, link_list), node))

RemoveNodeByValue ==
    /\ Counted
    /\ \E v \in Values :
        GraphCall("remove_node_by_value", <<v>>,
                  remove_node_by_value(G(node_list, link_list), v))

FeatherLinks ==
    /\ Counted
    /\ \E factor \in Factors, include_self \in BOOLEAN,
          ties \in [1..MaxTies -> BOOLEAN] :
        LET r == feather_links(G(node_list, link_list), factor,
                               include_self, ties)
        IN  /\ Did("feather_links", <<factor, include_self>>, r.err, NoNode)
            /\ link_list' = r.links
            /\ UNCHANGED <<node_list, current_node>>

\* Mutant of StartOf: current_node is consulted before starting_node.
StartOf_current_first(starting_node, current) ==
    IF current # NoNode THEN current ELSE starting_node

\* The node Graph.pick traverses from; NoNode in the bootstrap case
StartOf(starting_node, current) ==
    IF starting_node = NoNode THEN current ELSE starting_node

\* Mutant of pick_result: a pick that raises leaves current_node unset.
pick_result_clearing_current(current, picked) ==
    IF picked.err = "none"
    THEN [current |-> picked.node, err |-> "none", result |-> picked.node]
    ELSE [current |-> NoNode, err |-> picked.err, result |-> NoNode]

\* Mutant of pick_result: the picked node is returned but current_node is
\* left as it was.
pick_result_keeping_current(current, picked) ==
    [current |-> current, err |-> picked.err, result |-> picked.node]

\* Graph.pick(starting_node); NoNode is starting_node=None.  picked is the
\* value of random.choice or weighted_choice: [err, node].
pick_result(current, picked) ==
    IF picked.err = "none"
    THEN [current |-> picked.node, err |-> "none", result |-> picked.node]
    ELSE [current |-> current, err |-> picked.err, result |-> NoNode]

\* What random.choice(self.node_list) can give
RandomChoice(nodes) ==
    IF nodes = <<>> THEN {[err |-> "IndexError", node |-> NoNode]}
    ELSE {[err |-> "none", node |-> nodes[i]] : i \in 1..Len(nodes)}

\* What weighted_choice over the links of start can give
LinkChoice(ll) ==
    LET options == LinkOptions(ll)
        Outcome(sample2) ==
            LET r == weighted_choice(options, sample2)
            IN  IF r.kind = "return"
                THEN [err |-> "none", node |-> r.outcome]
                ELSE [err |-> r.kind, node |-> NoNode]
    IN  {Outcome(sample2) : sample2 \in Samples(options)}

Pick(starting_node) ==
    LET start == StartOf(starting_node, current_node)
    IN  \E picked \in IF start = NoNode THEN RandomChoice(node_list)
                      ELSE LinkChoice(link_list[start]) :
          LET r == pick_result(current_node, picked)
          IN  /\ Did("pick", <<starting_node>>, r.err, r.result)
              /\ current_node' = r.current
              /\ UNCHANGED <<node_list, link_list>>

PickFrom ==
    /\ Counted
    /\ \E starting_node \in Nodes \cup {NoNode} : Pick(starting_node)

----------------------------------------------------------------------------
(* The discrete chooser as a state machine: calls of weighted_choice, and *)
(* weighted_order running one pass of its while loop at a time.           *)

Outcomes == {"x", "y"}
Strengths == (0 - MaxStrength)..MaxStrength
OptionLists ==
    UNION {[1..k -> [outcome : Outcomes, strength : Strengths]] :
               k \in 0..MaxOptions}

\* No node, no graph, no call yet
Blank ==
    /\ node_value = <<>>
    /\ node_list = <<>>
    /\ link_list = <<>>
    /\ current_node = NoNode
    /\ last = Call("none", <<>>, "none", NoNode)
    /\ pre = NoSnapshot
    /\ steps = 0
    /\ order = NoOrder
    /\ built_from = NoSource
    /\ roll = NoRoll

InitRand == Blank

\* No call has been made yet.  The chooser keeps no state between calls,
\* so a run makes one call of weighted_choice or of weighted_order.
Fresh == last.op = "none" /\ order.pc = "idle"

\* weighted_choice(weights, as_index_and_value_tuple=True).  The index is
\* counted from 1, as the model's sequences are.
WeightedChoice ==
    /\ Fresh
    /\ \E weights \in OptionLists : \E sample2 \in Samples(weights) :
         LET r == weighted_choice(weights, sample2)
         IN  last' = Call("weighted_choice", <<weights, sample2>>,
                          IF r.kind = "return" THEN "none" ELSE r.kind,
                          <<r.index, r.outcome>>)
    /\ UNCHANGED <<graph_vars, pre, steps, order, built_from, roll>>

\* weighted_order up to its while loop
order_call(weights) ==
    IF Len(weights) = 0
    THEN [NoOrder EXCEPT !.pc = "returned"]
    ELSE IF \E i \in 1..Len(weights) : weights[i].strength <= 0
    THEN [NoOrder EXCEPT !.pc = "ProbabilityUndefinedError",
                         !.weights = weights]
    ELSE [NoOrder EXCEPT !.pc = "loop", !.weights = weights,
                         !.working_list = weights]

\* Mutant of order_pick: the item deleted from working_list is its first,
\* not the one picked.
order_pick_deleting_first(o, sample2) ==
    LET r == weighted_choice(o.working_list, sample2)
    IN  IF r.kind # "return" THEN [o EXCEPT !.pc = r.kind, !.calls = @ + 1]
        ELSE [o EXCEPT !.output_list = Append(@, r.outcome),
                       !.working_list = Tail(@),
                       !.calls = @ + 1]

\* One pass of the body of weighted_order's while loop
order_pick(o, sample2) ==
    LET r == weighted_choice(o.working_list, sample2)
    IN  IF r.kind # "return" THEN [o EXCEPT !.pc = r.kind, !.calls = @ + 1]
        ELSE [o EXCEPT !.output_list = Append(@, r.outcome),
                       !.working_list = SubSeq(@, 1, r.index - 1)
                                            \o SubSeq(@, r.index + 1, Len(@)),
                       !.calls = @ + 1]

OrderCall ==
    /\ Fresh
    /\ \E weights \in OptionLists :
        /\ order' = order_call(weights)
        /\ last' = Call("weighted_order", <<weights>>, "none", NoNode)
    /\ UNCHANGED <<graph_vars, pre, steps, built_from, roll>>

OrderPick ==
    /\ order.pc = "loop"
    /\ order.working_list # <<>>
    /\ \E sample2 \in Samples(order.working_list) :
        order' = order_pick(order, sample2)
    /\ UNCHANGED <<graph_vars, last, pre, steps, built_from, roll>>

OrderReturn ==
    /\ order.pc = "loop"
    /\ order.working_list = <<>>
    /\ order' = [order EXCEPT !.pc = "returned"]
    /\ UNCHANGED <<graph_vars, last, pre, steps, built_from, roll>>

NextRand ==
    \/ WeightedChoice
    \/ OrderCall
    \/ OrderPick
    \/ OrderReturn

SpecRand == InitRand /\ [][NextRand]_vars

----------------------------------------------------------------------------
(* Curves (blur/rand.py).  A curve is a list of points [x, y]; x is an    *)
(* integer and y a fraction [num, den], so that the arithmetic of          *)
(* _linear_interp is carried out exactly (the rounding of the float        *)
(* operations is not modelled).  round_result is left at its default.      *)

Abs(n) == IF n < 0 THEN 0 - n ELSE n

\* The fraction num / den (den # 0) in lowest terms with den > 0
Frac(num, den) ==
    LET g == GCD(Abs(num), Abs(den))
        s == IF den < 0 THEN 0 - 1 ELSE 1
    IN  [num |-> s * (num \div g), den |-> s * (den \div g)]

Whole(n) == Frac(n, 1)
\* The operands are bound as values, so that each is worked out once
FracAdd(a, b) ==
    CHOOSE f \in {Frac(p.num * q.den + q.num * p.den, p.den * q.den) :
                      p \in {a}, q \in {b}} : TRUE
FracSub(a, b) ==
    CHOOSE f \in {Frac(p.num * q.den - q.num * p.den, p.den * q.den) :
                      p \in {a}, q \in {b}} : TRUE
FracMul(a, b) ==
    CHOOSE f \in {Frac(p.num * q.num, p.den * q.den) :
                      p \in {a}, q \in {b}} : TRUE
FracDiv(a, b) ==
    CHOOSE f \in {Frac(p.num * q.den, p.den * q.num) :
                      p \in {a}, q \in {b}} : TRUE
FracGreater(a, b) == a.num * b.den > b.num * a.den

Point(x, y) == [x |-> x, y |-> y]

\* The curves given as arguments: at least one point, sorted in
\* nondecreasing x
Xs == 0..MaxX
Ys == 0..MaxY
Curves ==
    UNION {{c \in [1..k -> [x : Xs, y : {Whole(y) : y \in Ys}]] :
               \A i \in 1..(k - 1) : c[i].x <= c[i + 1].x} :
           k \in 1..MaxPoints}

\* The x values given as arguments, some of them outside every curve
TestXs == (0 - 1)..(MaxX + 1)

\* The loop of _linear_interp from index on (counted from 1): the value of
\* the first segment of distinct x values that holds test_x
RECURSIVE linear_interp_loop(_, _, _)
linear_interp_loop(curve, test_x, index) ==
    IF index > Len(curve) - 1
    THEN [err |-> "ProbabilityUndefinedError", result |-> Whole(0)]
    ELSE IF curve[index].x = curve[index + 1].x
    THEN linear_interp_loop(curve, test_x, index + 1)
    ELSE IF curve[index].x <= test_x /\ test_x <= curve[index + 1].x
    THEN LET slope == FracDiv(FracSub(curve[index + 1].y, curve[index].y),
                              Whole(curve[index + 1].x - curve[index].x))
             y_intercept == FracSub(curve[index].y,
                                    FracMul(slope, Whole(curve[index].x)))
         IN  [err |-> "none",
              result |-> FracAdd(FracMul(slope, Whole(test_x)), y_intercept)]
    ELSE linear_interp_loop(curve, test_x, index + 1)

\* _linear_interp(curve, test_x)
linear_interp(curve, test_x) == linear_interp_loop(curve, test_x, 1)

\* Mutant of point_under_curve: where _linear_interp fails the curve is
\* taken to be at height 0.
point_under_curve_zero_outside(curve, point) ==
    LET r == linear_interp(curve, point.x)
    IN  IF r.err = "none" THEN FracGreater(r.result, point.y)
        ELSE FracGreater(Whole(0), point.y)

\* _point_under_curve(curve, point): the error of _linear_interp is caught
point_under_curve(curve, point) ==
    LET r == linear_interp(curve, point.x)
    IN  IF r.err = "none" THEN FracGreater(r.result, point.y) ELSE FALSE

\* The bounds given as arguments: <<>> is None, <<b>> the bound b
Bounds == {<<>>} \cup {<<b>> : b \in TestXs}

\* bound_weights up to the endpoints: the weights within the bounds
within_bounds(weights, minimum, maximum) ==
    IF minimum # <<>> /\ maximum # <<>>
    THEN SelectSeq(weights,
                   LAMBDA bw : minimum[1] <= bw.x /\ bw.x <= maximum[1])
    ELSE IF minimum # <<>>
    THEN SelectSeq(weights, LAMBDA bw : minimum[1] <= bw.x)
    ELSE SelectSeq(weights, LAMBDA bw : bw.x <= maximum[1])

\* The first endpoint test of bound_weights and the insert it guards; r is
\* [err, result, weights]: the error raised, the list bounded so far and
\* the list given as argument as it now is
attach_minimum(r, minimum) ==
    IF r.result[1].x > r.weights[1].x /\ <<r.result[1].x>> # minimum
    THEN LET y == linear_interp(r.weights, minimum[1])
         IN  IF y.err # "none" THEN [r EXCEPT !.err = y.err]
             ELSE [r EXCEPT
                     !.result = <<Point(minimum[1], y.result)>> \o @]
    ELSE r

\* Mutant of attach_maximum: the endpoint is appended to the list given as
\* argument as well.
attach_maximum_to_weights(r, maximum) ==
    IF r.err # "none" THEN r
    ELSE IF r.result[Len(r.result)].x < r.weights[Len(r.weights)].x
            /\ <<r.result[Len(r.result)].x>> # maximum
    THEN LET y == linear_interp(r.weights, maximum[1])
         IN  IF y.err # "none" THEN [r EXCEPT !.err = y.err]
             ELSE [r EXCEPT
                     !.result = Append(@, Point(maximum[1], y.result)),
                     !.weights = Append(@, Point(maximum[1], y.result))]
    ELSE r

\* The second endpoint test of bound_weights and the append it guards
attach_maximum(r, maximum) ==
    IF r.err # "none" THEN r
    ELSE IF r.result[Len(r.result)].x < r.weights[Len(r.weights)].x
            /\ <<r.result[Len(r.result)].x>> # maximum
    THEN LET y == linear_interp(r.weights, maximum[1])
         IN  IF y.err # "none" THEN [r EXCEPT !.err = y.err]
             ELSE [r EXCEPT
                     !.result = Append(@, Point(maximum[1], y.result))]
    ELSE r

\* bound_weights(weights, minimum, maximum): [err, result, weights].  Only
\* the copy bounded_weights and the lists filtered from it are written to.
bound_weights(weights, minimum, maximum) ==
    IF minimum # <<>> /\ maximum # <<>> /\ maximum[1] < minimum[1]
    THEN [err |-> "ValueError", result |-> <<>>, weights |-> weights]
    ELSE IF minimum = <<>> /\ maximum = <<>>
    THEN [err |-> "none", result |-> weights, weights |-> weights]
    ELSE LET bounded_weights == within_bounds(weights, minimum, maximum)
         IN  IF bounded_weights = <<>>
             THEN [err |-> "IndexError", result |-> <<>>,
                   weights |-> weights]
             ELSE attach_maximum(
                      attach_minimum([err |-> "none",
                                      result |-> bounded_weights,
                                      weights |-> weights],
                                     minimum),
                      maximum)

InitCurve == Blank

\* _linear_interp(curve, test_x)
LinearInterp ==
    /\ Fresh
    /\ \E curve \in Curves, test_x \in TestXs :
         LET r == linear_interp(curve, test_x)
         IN  last' = Call("_linear_interp", <<curve, test_x>>, r.err,
                          r.result)
    /\ UNCHANGED <<graph_vars, pre, steps, order, built_from, roll>>

\* _point_under_curve(curve, point)
PointUnderCurve ==
    /\ Fresh
    /\ \E curve \in Curves, px \in TestXs, py \in (0 - 1)..(MaxY + 1) :
         last' = Call("_point_under_curve",
                      <<curve, Point(px, Whole(py))>>, "none",
                      point_under_curve(curve, Point(px, Whole(py))))
    /\ UNCHANGED <<graph_vars, pre, steps, order, built_from, roll>>

\* bound_weights(weights, minimum, maximum); args[4] is the list weights
\* as the call leaves it
BoundWeights ==
    /\ Fresh
    /\ \E weights \in Curves, minimum \in Bounds, maximum \in Bounds :
         LET r == bound_weights(weights, minimum, maximum)
         IN  last' = Call("bound_weights",
                          <<weights, minimum, maximum, r.weights>>, r.err,
                          r.result)
    /\ UNCHANGED <<graph_vars, pre, steps, order, built_from, roll>>

NextCurve ==
    \/ LinearInterp
    \/ PointUnderCurve
    \/ BoundWeights

SpecCurve == InitCurve /\ [][NextCurve]_vars

----------------------------------------------------------------------------
(* weighted_rand (blur/rand.py), one pass of its loop per step.  The two  *)
(* values random.uniform draws for a sample point are parameters, taken   *)
(* among the whole numbers of the box; round_result is left at its        *)
(* default.  AttemptCap stands for the 500000 of the while condition.     *)

\* The lists of weights given as arguments, in any order of x
RollYs == (0 - 1)..MaxY
WeightLists ==
    UNION {[1..k -> [x : Xs, y : {Whole(y) : y \in RollYs}]] :
               k \in 1..MaxPoints}

\* sorted(weights, key=lambda w: w[0]): points of equal x keep their order
RECURSIVE sorted_by_x(_)
sorted_by_x(weights) ==
    IF weights = <<>> THEN <<>>
    ELSE LET i == CHOOSE k \in 1..Len(weights) :
                    /\ \A j \in 1..Len(weights) : weights[k].x <= weights[j].x
                    /\ \A j \in 1..(k - 1) : weights[j].x # weights[k].x
         IN  <<weights[i]>> \o
                 sorted_by_x(SubSeq(weights, 1, i - 1)
                                 \o SubSeq(weights, i + 1, Len(weights)))

\* max([point[1] for point in weights]), the y values being whole
y_max(weights) ==
    CHOOSE y \in {weights[i].y.num : i \in 1..Len(weights)} :
        \A i \in 1..Len(weights) : weights[i].y.num <= y

\* What random.uniform(a, b) can give, among the whole numbers
Uniform(a, b) == IF a <= b THEN a..b ELSE b..a

\* The sample points a pass of the loop can draw
SamplePoints(weights) ==
    {Point(px, Whole(py)) :
        px \in Uniform(weights[1].x, weights[Len(weights)].x),
        py \in Uniform(0, y_max(weights))}

\* weighted_rand up to its while loop
rand_call(weights) ==
    IF Len(weights) = 1
    THEN [pc |-> "returned", weights |-> weights, attempt_count |-> 0,
          result |-> weights[1].x, sample |-> <<>>, via |-> "one weight"]
    ELSE [pc |-> "loop", weights |-> sorted_by_x(weights),
          attempt_count |-> 0, result |-> 0, sample |-> <<>>,
          via |-> "none"]

\* Mutant of rand_draw: a rejected sample is not counted.
rand_draw_uncounted(r, sample) ==
    IF point_under_curve(r.weights, sample)
    THEN [r EXCEPT !.pc = "returned", !.result = sample.x,
                   !.sample = <<sample>>, !.via = "sample"]
    ELSE r

\* One pass of the body of the while loop
rand_draw(r, sample) ==
    IF point_under_curve(r.weights, sample)
    THEN [r EXCEPT !.pc = "returned", !.result = sample.x,
                   !.sample = <<sample>>, !.via = "sample"]
    ELSE [r EXCEPT !.attempt_count = @ + 1]

\* The else of the while loop: the warning, then random.choice(weights)[0]
rand_default(r, choice) ==
    [r EXCEPT !.pc = "returned", !.result = r.weights[choice].x,
              !.via = "random weight point"]

\* The weights the call is going to be made with are drawn beforehand
InitRoll ==
    /\ node_value = <<>>
    /\ node_list = <<>>
    /\ link_list = <<>>
    /\ current_node = NoNode
    /\ last = Call("none", <<>>, "none", NoNode)
    /\ pre = NoSnapshot
    /\ steps = 0
    /\ order = NoOrder
    /\ built_from = NoSource
    /\ \E weights \in WeightLists : roll = [NoRoll EXCEPT !.weights = weights]

RandCall ==
    /\ Fresh
    /\ roll.pc = "idle"
    /\ roll' = rand_call(roll.weights)
    /\ last' = Call("weighted_rand", <<roll.weights>>, "none", NoNode)
    /\ UNCHANGED <<graph_vars, pre, steps, order, built_from>>

RandDraw ==
    /\ roll.pc = "loop"
    /\ roll.attempt_count < AttemptCap
    /\ \E sample \in SamplePoints(roll.weights) :
        roll' = rand_draw(roll, sample)
    /\ UNCHANGED <<graph_vars, last, pre, steps, order, built_from>>

RandDefault ==
    /\ roll.pc = "loop"
    /\ ~(roll.attempt_count < AttemptCap)
    /\ \E choice \in 1..Len(roll.weights) :
        roll' = rand_default(roll, choice)
    /\ UNCHANGED <<graph_vars, last, pre, steps, order, built_from>>

NextRoll ==
    \/ RandCall
    \/ RandDraw
    \/ RandDefault

\* A call that has begun runs on: the loop is not suspended
SpecRoll ==
    InitRoll /\ [][NextRoll]_vars /\ WF_vars(RandDraw) /\ WF_vars(RandDefault)

----------------------------------------------------------------------------
(* Graph.apply_noise.  The values random.uniform and weighted_rand draw    *)
(* are parameters: far[j] tells whether a draw falls at the near or at the *)
(* far end of what it can give, and the draws of one call take the entries *)
(* of far in turn.  The amounts of a noise curve are in thousandths.       *)

\* uniform_amount of apply_noise: the default 0.1, and 0.0006
UniformAmounts == {<<1, 10>>, <<6, 10000>>}

\* noise_weights of apply_noise: None (<<>>), a curve of one point and a
\* level curve over the amounts 0 to 0.002
NoiseWeights ==
    {<<>>, <<Point(1, Whole(1))>>,
     <<Point(0, Whole(1)), Point(2, Whole(1))>>}

\* The values weighted_rand(weights) can return: the one outcome, the x of
\* a sample under the curve, or the x of a weight once the attempts are
\* used up
weighted_rand(weights) ==
    LET r == rand_call(weights)
    IN  IF r.pc = "returned" THEN {r.result}
        ELSE {rand_draw(r, sample).result :
                  sample \in {p \in SamplePoints(r.weights) :
                                  point_under_curve(r.weights, p)}}
             \cup {rand_default(r, choice).result :
                       choice \in 1..Len(r.weights)}

\* round(x, 3) in thousandths of the draws x of random.uniform(0, b) nearest
\* to b, for b = num / den thousandths: b rounded to the nearest whole
\* number, and rounded down when b lies halfway (the draws stay below b)
round_far(num, den) ==
    LET n == Abs(num)
        r == IF (2 * n) % (2 * den) = den THEN n \div den
             ELSE (2 * n + den) \div (2 * den)
    IN  IF num < 0 THEN 0 - r ELSE r

Lowest(S) == CHOOSE x \in S : \A y \in S : x <= y
Highest(S) == CHOOSE x \in S : \A y \in S : y <= x

\* noise_amount for a link of the given weight; rolls is what
\* weighted_rand(noise_weights) can return
noise_amount(weight, o, at_far) ==
    IF o.noise_weights # <<>>
    THEN IF at_far THEN Highest(o.rolls) ELSE Lowest(o.rolls)
    ELSE IF at_far
    THEN round_far(weight * o.uniform_amount[1], o.uniform_amount[2])
    ELSE 0

\* The two loops of apply_noise from the i-th link of the k-th entry of
\* node_list on; n links have been visited.  o is [noise_weights, rolls,
\* uniform_amount, far].  Each weight is read as it stands.
RECURSIVE apply_noise_loop(_, _, _, _, _, _)
apply_noise_loop(links, nodes, o, k, i, n) ==
    IF k > Len(nodes) THEN links
    ELSE IF i > Len(links[nodes[k]])
    THEN apply_noise_loop(links, nodes, o, k + 1, 1, n)
    ELSE LET link == links[nodes[k]][i]
             amount == noise_amount(link.weight, o,
                                    o.far[(n % MaxDraws) + 1])
         IN  apply_noise_loop(
                 [links EXCEPT ![nodes[k]][i].weight = @ + amount],
                 nodes, o, k, i + 1, n + 1)

\* Graph.apply_noise
apply_noise(g, noise_weights, uniform_amount, far) ==
    apply_noise_loop(g.links, g.nodes,
                     [noise_weights |-> noise_weights,
                      rolls |-> IF noise_weights # <<>>
                                THEN weighted_rand(noise_weights) ELSE {},
                      uniform_amount |-> uniform_amount, far |-> far],
                     1, 1, 0)

ApplyNoise ==
    /\ Counted
    /\ \E noise_weights \in NoiseWeights, uniform_amount \in UniformAmounts,
          far \in [1..MaxDraws -> BOOLEAN] :
        /\ Did("apply_noise", <<noise_weights, uniform_amount>>, "none",
               NoNode)
        /\ link_list' = apply_noise(G(node_list, link_list), noise_weights,
                                    uniform_amount, far)
        /\ UNCHANGED <<node_list, current_node>>

Next ==
    \/ AddLink
    \/ AddLinkToSelf
    \/ AddReciprocalLink
    \/ MergeLinksFrom
    \/ RemoveLinksToSelf
    \/ AddNodes
    \/ MergeNodes
    \/ RemoveNode
    \/ RemoveNodeByValue
    \/ FeatherLinks
    \/ ApplyNoise
    \/ PickFrom

Spec == Init /\ [][Next]_vars

----------------------------------------------------------------------------
(* Graph.from_string.  words is the list of tokens re.findall gives; the  *)
(* nodes made for them are the identities 1..Len(temp_node_list).         *)
(* distance_weights is a function from offsets to weights.                *)

WordLists == UNION {[1..k -> Values] : k \in 0..MaxTokens}
Offsets == (0 - MaxOffset)..MaxOffset
DictWeights == {Unit, 2 * Unit}
Dicts == UNION {[keys -> DictWeights] : keys \in SUBSET Offsets}

\* sorted(distance_weights.items(), key=lambda i: i[0])
RECURSIVE sorted_items(_)
sorted_items(d) ==
    IF DOMAIN d = {} THEN <<>>
    ELSE LET k == CHOOSE x \in DOMAIN d : \A y \in DOMAIN d : x <= y
         IN  <<<<k, d[k]>>>> \o sorted_items([y \in DOMAIN d \ {k} |-> d[y]])

\* Mutant of wrapped_index: an index past either end is not wrapped but
\* stops at that end.
wrapped_index_clamped(key, i, n) ==
    IF key + i < 0 THEN 0 ELSE IF key + i >= n THEN n - 1 ELSE key + i

\* wrapped_index = (key + i) % len(...), on indices counted from 0
wrapped_index(key, i, n) == (key + i) % n

\* The node of temp_node_list whose value is word: next(n for n in ... )
FirstWithValue(values, word) ==
    CHOOSE n \in 1..Len(values) :
        values[n] = word /\ \A m \in 1..(n - 1) : values[m] # word

\* Mutant of unique_words: a node is made for every word, seen before or
\* not.
unique_words_keeping_all(words, seen) == seen \o words

\* The values of the nodes made when merge_same_words: one per distinct
\* word, in order of first occurrence
RECURSIVE unique_words(_, _)
unique_words(words, seen) ==
    IF words = <<>> THEN seen
    ELSE unique_words(Tail(words),
                      IF Head(words) \in Range(seen) THEN seen
                      ELSE Append(seen, Head(words)))

\* The loop over sorted_weights_list for the word at index i (from 0),
\* from the k-th item on; node is the node the links are attached to.
RECURSIVE link_word(_, _, _, _, _, _, _)
link_word(links, values, words, items, merge_same_words, i, k) ==
    IF k > Len(items) THEN links
    ELSE LET key == items[k][1]
             weight == items[k][2]
             w == wrapped_index(key, i, Len(words))
             node == IF merge_same_words
                     THEN FirstWithValue(values, words[i + 1])
                     ELSE i + 1
             target == IF merge_same_words
                       THEN FirstWithValue(values, words[w + 1])
                       ELSE w + 1
         IN  link_word(add_link(links, node, <<target>>, weight),
                       values, words, items, merge_same_words, i, k + 1)

\* The loop over the words, from index i (from 0) on
RECURSIVE link_words(_, _, _, _, _, _)
link_words(links, values, words, items, merge_same_words, i) ==
    IF i >= Len(words) THEN links
    ELSE link_words(link_word(links, values, words, items,
                              merge_same_words, i, 1),
                    values, words, items, merge_same_words, i + 1)

\* Graph.from_string: the node values and the graph it returns.  default
\* is distance_weights=None, which stands for {1: 1}.
from_string(words, default, distance_weights, merge_same_words) ==
    LET d == IF default THEN [k \in {1} |-> Unit] ELSE distance_weights
        values == IF merge_same_words THEN unique_words(words, <<>>)
                  ELSE words
        links == link_words([n \in 1..Len(values) |-> <<>>], values, words,
                            sorted_items(d), merge_same_words, 0)
    IN  [values |-> values,
         graph |-> add_nodes(G(<<>>, links), [n \in 1..Len(values) |-> n])]

InitString == Blank

FromString ==
    /\ ~built_from.built
    /\ \E words \in WordLists, default \in BOOLEAN, d \in Dicts,
          merge_same_words \in BOOLEAN :
        /\ default => d = <<>>
        /\ LET r == from_string(words, default, d, merge_same_words)
           IN  /\ node_value' = r.values
               /\ node_list' = r.graph.nodes
               /\ link_list' = r.graph.links
        /\ built_from' = [built |-> TRUE, words |-> words, default |-> default,
                      distance_weights |-> d,
                      merge_same_words |-> merge_same_words]
        /\ last' = Call("from_string", <<>>, "none", NoNode)
    /\ current_node' = NoNode
    /\ UNCHANGED <<pre, steps, order, roll>>

\* graph.pick() on the graph from_string returned
PickNext ==
    /\ built_from.built
    /\ Pick(NoNode)
    /\ UNCHANGED <<node_value, steps, order, built_from, roll>>

NextString ==
    \/ FromString
    \/ PickNext

SpecString == InitString /\ [][NextString]_vars /\ WF_vars(PickNext)

----------------------------------------------------------------------------
(* The earlier Graph of markov/graph.py with the Node of markov/nodes.py.  *)
(* node_value[n] is n.name.  Graph.add_nodes takes merge_existing_names,   *)
(* and Graph.from_string hands merge_same_words on to it.                  *)

\* Node.add_link of markov/nodes.py for one target: a weight below 0 counts
\* as 0 (use_weight is left out)
old_add_link(links, self, target, weight) ==
    add_link_target(links, self, target, IF weight < 0 THEN 0 ELSE weight)

\* The first loop of the earlier merge_nodes, from the i-th link of
\* kill_node on; keep_node.link_list is searched as it stands
RECURSIVE old_merge_links(_, _, _, _)
old_merge_links(links, keep_node, kill_node, i) ==
    IF i > Len(links[kill_node]) THEN links
    ELSE LET kill_link == links[kill_node][i]
             m == FirstLinkTo(links[keep_node], kill_link.target)
             next == IF m > 0
                     THEN [links EXCEPT
                             ![keep_node][m].weight = @ + kill_link.weight]
                     ELSE old_add_link(links, keep_node, kill_link.target,
                                       kill_link.weight)
         IN  old_merge_links(next, keep_node, kill_node, i + 1)

\* The earlier Graph.remove_node
old_remove_node(g, node) == remove_node(g, node)

\* The earlier Graph.merge_nodes
old_merge_nodes(g, keep_node, kill_node) ==
    old_remove_node(G(g.nodes,
                      old_merge_links(g.links, keep_node, kill_node, 1)),
                    kill_node)

\* Index in nodes of the first node named as add_node is, 0 if none
FirstNamed(names, nodes, add_node) ==
    IF \E j \in 1..Len(nodes) : names[nodes[j]] = names[add_node]
    THEN CHOOSE j \in 1..Len(nodes) :
             /\ names[nodes[j]] = names[add_node]
             /\ \A m \in 1..(j - 1) : names[nodes[m]] # names[add_node]
    ELSE 0

\* The loop over add_list of the earlier add_nodes when
\* merge_existing_names, from the i-th node on
RECURSIVE old_add_merging(_, _, _, _)
old_add_merging(g, names, add_list, i) ==
    IF i > Len(add_list) THEN g
    ELSE LET add_node == add_list[i]
             j == FirstNamed(names, g.nodes, add_node)
         IN  old_add_merging(IF j > 0
                             THEN old_merge_nodes(g, g.nodes[j], add_node)
                             ELSE g,
                             names, add_list, i + 1)

\* The earlier Graph.add_nodes
old_add_nodes(g, names, add_list, merge_existing_names) ==
    IF merge_existing_names THEN old_add_merging(g, names, add_list, 1)
    ELSE G(g.nodes \o add_list, g.links)

\* The linking loops of the earlier from_string, from the i-th word (from
\* 0) and the k-th item of distance_weights on
RECURSIVE old_link_words(_, _, _, _, _)
old_link_words(links, size, items, i, k) ==
    IF i >= size THEN links
    ELSE IF k > Len(items) THEN old_link_words(links, size, items, i + 1, 1)
    ELSE old_link_words(
             old_add_link(links, i + 1,
                          wrapped_index(items[k][1], i, size) + 1,
                          items[k][2]),
             size, items, i, k + 1)

\* The earlier Graph.from_string: the names of the nodes and the graph
\* returned.  default is distance_weights=None, which stands for {1: 1};
\* the items of distance_weights are taken in the order of their keys.
old_from_string(words, default, distance_weights, merge_same_words) ==
    LET d == IF default THEN [k \in {1} |-> Unit] ELSE distance_weights
        temp_node_list == [n \in 1..Len(words) |-> n]
        links == old_link_words([n \in 1..Len(words) |-> <<>>], Len(words),
                                sorted_items(d), 0, 1)
    IN  [values |-> words,
         graph |-> old_add_nodes(G(<<>>, links), words, temp_node_list,
                                 merge_same_words)]

InitOld ==
    /\ node_value = [n \in Nodes |-> IF n % 2 = 1 THEN "a" ELSE "b"]
    /\ node_list = <<>>
    /\ link_list = [n \in Nodes |-> <<>>]
    /\ current_node = NoNode
    /\ last = Call("Graph", <<>>, "none", NoNode)
    /\ pre = NoSnapshot
    /\ steps = 0
    /\ order = NoOrder
    /\ built_from = NoSource
    /\ roll = NoRoll

OldAddLink ==
    /\ Counted
    /\ ~built_from.built
    /\ \E self \in Nodes, target \in Nodes, weight \in ArgWeights :
        /\ Did("add_link", <<self, target, weight>>, "none", NoNode)
        /\ link_list' = old_add_link(link_list, self, target, weight)
    /\ UNCHANGED <<node_list, current_node>>

OldAddNodes ==
    /\ Counted
    /\ ~built_from.built
    /\ \E nodes \in NodeLists, merge_existing_names \in BOOLEAN :
        /\ Len(node_list) + Len(nodes) <= MaxNodeList
        /\ LET g == old_add_nodes(G(node_list, link_list), node_value,
                                  nodes, merge_existing_names)
           IN  /\ Did("add_nodes", <<nodes, merge_existing_names>>, "none",
                      NoNode)
               /\ node_list' = g.nodes
               /\ link_list' = g.links
    /\ UNCHANGED current_node

OldFromString ==
    /\ last.op = "Graph"
    /\ \E words \in WordLists, default \in BOOLEAN, d \in Dicts,
          merge_same_words \in BOOLEAN :
        /\ default => d = <<>>
        /\ LET r == old_from_string(words, default, d, merge_same_words)
           IN  /\ node_value' = r.values
               /\ node_list' = r.graph.nodes
               /\ link_list' = r.graph.links
        /\ built_from' = [built |-> TRUE, words |-> words, default |-> default,
                      distance_weights |-> d,
                      merge_same_words |-> merge_same_words]
        /\ last' = Call("from_string", <<>>, "none", NoNode)
    /\ UNCHANGED <<current_node, pre, steps, order, roll>>

NextOld ==
    \/ OldAddLink
    \/ OldAddNodes
    \/ OldFromString

SpecOld == InitOld /\ [][NextOld]_vars

----------------------------------------------------------------------------
(* Properties of the graph, checked under Spec *)

Targets(ll) == {ll[i].target : i \in 1..Len(ll)}
HasLink(ll, t) == t \in Targets(ll)
WeightTo(ll, t) == ll[FirstLinkTo(ll, t)].weight
InGraph(nodes, n) == n \in Range(nodes)

\* C1: in every state reached from nodes with empty link lists by add_link,
\* add_link_to_self, add_reciprocal_link, merge_links_from,
\* remove_links_to_self, merge_nodes, feather_links, remove_node and
\* remove_node_by_value, no link list holds two links to the same target.
C1_OneLinkPerTarget ==
    \A n \in Nodes : \A i, j \in 1..Len(link_list[n]) :
        i # j => link_list[n][i].target # link_list[n][j].target

\* C1 witness: add_link with a list naming twice a target that was linked
\* already has summed both weights into the one existing link.
C1_Witness ==
    /\ last.op = "add_link"
    /\ last.args[3] = Unit
    /\ Len(last.args[2]) = 2
    /\ last.args[2][1] = last.args[2][2]
    /\ HasLink(pre.links[last.args[1]], last.args[2][1])
    /\ WeightTo(link_list[last.args[1]], last.args[2][1])
           = WeightTo(pre.links[last.args[1]], last.args[2][1]) + 2 * Unit

\* The targets both nodes linked to before a merge_nodes(keep, kill)
SharedTargets(keep, kill) ==
    Targets(pre.links[keep]) \cap Targets(pre.links[kill])

MergedDistinctNodes ==
    /\ last.op = "merge_nodes"
    /\ last.args[1] # last.args[2]
    /\ InGraph(pre.nodes, last.args[1])
    /\ InGraph(pre.nodes, last.args[2])

SumOnKeep(keep, kill, t) ==
    /\ HasLink(link_list[keep], t)
    /\ WeightTo(link_list[keep], t)
           = WeightTo(pre.links[keep], t) + WeightTo(pre.links[kill], t)

\* C2 as stated: after merge_nodes(keep, kill) on two nodes of the graph,
\* for every target t both linked to before the call, keep's link to t
\* weighs the sum of the two original weights.
C2_Original ==
    MergedDistinctNodes =>
        \A t \in SharedTargets(last.args[1], last.args[2]) :
            SumOnKeep(last.args[1], last.args[2], t)

\* C2 amended: the same for every shared target t that is a node of the
\* graph other than keep and kill themselves.
C2_SharedTargetSum ==
    MergedDistinctNodes =>
        \A t \in SharedTargets(last.args[1], last.args[2]) :
            (InGraph(pre.nodes, t) /\ t \notin {last.args[1], last.args[2]})
                => SumOnKeep(last.args[1], last.args[2], t)

\* C2 witness: a merge where keep and kill both held a link of non-zero
\* weight to a third node of the graph.
C2_Witness ==
    /\ MergedDistinctNodes
    /\ \E t \in SharedTargets(last.args[1], last.args[2]) :
        /\ InGraph(pre.nodes, t)
        /\ t \notin {last.args[1], last.args[2]}
        /\ WeightTo(pre.links[last.args[1]], t) > 0
        /\ WeightTo(pre.links[last.args[2]], t) > 0

NoLinkTo(nodes, links, n) ==
    \A m \in Range(nodes) : ~HasLink(links[m], n)

\* C3 as stated: after remove_node(n), for every node n passed to it, no
\* node remaining in the collection has a link targeting n.
C3_Original ==
    last.op = "remove_node" => NoLinkTo(node_list, link_list, last.args[1])

\* C3 amended: after remove_node(n) with n in the collection, no node
\* remaining in the collection has a link targeting n.
C3_NoLinkToRemoved ==
    (last.op = "remove_node" /\ InGraph(pre.nodes, last.args[1]))
        => NoLinkTo(node_list, link_list, last.args[1])

\* C3 witness: remove_node(n) of a node of the graph that another node,
\* which stays in the graph, linked to.
C3_Witness ==
    /\ last.op = "remove_node"
    /\ InGraph(pre.nodes, last.args[1])
    /\ \E m \in Range(node_list) :
        m # last.args[1] /\ HasLink(pre.links[m], last.args[1])

Bootstrap == last.args[1] = NoNode /\ pre.current = NoNode

\* C4: a pick that returns a node leaves current_node set to that node,
\* in all three cases; with neither a starting node nor a current node the
\* node is a member of node_list and is returned whatever the links are
\* (the pick succeeds whenever the collection is not empty).
C4_PickSetsCurrent ==
    last.op = "pick" =>
        /\ last.err = "none" =>
             /\ last.result # NoNode
             /\ current_node = last.result
        /\ Bootstrap =>
             /\ last.err = "none" <=> node_list # <<>>
             /\ last.err = "none" => InGraph(node_list, last.result)

\* C4 witness: a bootstrap pick returned a node that has no links, in a
\* graph where another node has links.
C4_Witness ==
    /\ last.op = "pick"
    /\ Bootstrap
    /\ last.err = "none"
    /\ link_list[last.result] = <<>>
    /\ \E n \in Nodes : link_list[n] # <<>>

\* C5: a pick from starting node s returns the target of one of s's
\* links, whatever current_node was; a pick without starting node, with
\* current_node c, returns the target of one of c's links.
C5_PickFollowsLink ==
    (last.op = "pick" /\ last.err = "none" /\ ~Bootstrap) =>
        IF last.args[1] # NoNode
        THEN HasLink(link_list[last.args[1]], last.result)
        ELSE HasLink(link_list[pre.current], last.result)

\* C5 witness: a pick from a starting node, made while current_node was
\* another node, returned a node that is no target of current_node's links.
C5_Witness ==
    /\ last.op = "pick"
    /\ last.err = "none"
    /\ last.args[1] # NoNode
    /\ pre.current # NoNode
    /\ pre.current # last.args[1]
    /\ ~HasLink(link_list[pre.current], last.result)

Feathered == last.op = "feather_links" /\ last.err = "none"

\* The targets one hop beyond n: the targets of the targets of n
TwoHops(links, n) == UNION {Targets(links[m]) : m \in Targets(links[n])}

\* The link lists as weights by target, whatever the order of the links
WeightsByTarget(links) ==
    [n \in DOMAIN links |->
        [t \in Targets(links[n]) |-> WeightTo(links[n], t)]]

\* Every order the nodes of a collection can be listed in
Orders(nodes) ==
    {p \in [1..Len(nodes) -> Range(nodes)] : Range(p) = Range(nodes)}

\* C11: a call of feather_links works from the link lists as they stood
\* before the call: a node gains links only to targets of the nodes it
\* linked to before the call, and the weights that result do not depend on
\* the order of the nodes in the collection.
C11_Original ==
    Feathered =>
        /\ \A n \in Range(node_list) :
             Targets(link_list[n]) \subseteq
                 Targets(pre.links[n]) \cup TwoHops(pre.links, n)
        /\ \A p \in Orders(pre.nodes) :
             \E ties \in [1..MaxTies -> BOOLEAN] :
                LET r == feather_links(G(p, pre.links), last.args[1],
                                       last.args[2], ties)
                IN  /\ r.err = "none"
                    /\ WeightsByTarget(r.links) = WeightsByTarget(link_list)

AllLinksPositive(links) ==
    \A n \in DOMAIN links : \A i \in 1..Len(links[n]) : links[n][i].weight > 0

\* C12: feather_links on link weights that are all positive destroys
\* nothing: every link a node had before the call is afterwards at the same
\* position with the same target and a weight not lower, so new links come
\* after the old ones; with include_self false no node gains a link to
\* itself and a link a node had to itself keeps its weight.
C12_FeatherKeepsLinks ==
    (last.op = "feather_links" /\ AllLinksPositive(pre.links)) =>
        \A n \in Nodes :
            /\ Len(link_list[n]) >= Len(pre.links[n])
            /\ \A i \in 1..Len(pre.links[n]) :
                 /\ link_list[n][i].target = pre.links[n][i].target
                 /\ link_list[n][i].weight >= pre.links[n][i].weight
            /\ ~last.args[2] =>
                 IF HasLink(pre.links[n], n)
                 THEN WeightTo(link_list[n], n) = WeightTo(pre.links[n], n)
                 ELSE ~HasLink(link_list[n], n)

\* C12 witness: a call with include_self false on positive weights, after
\* which a node that links to itself has gained a link and a higher weight
\* on another of its links.
C12_Witness ==
    /\ Feathered
    /\ AllLinksPositive(pre.links)
    /\ ~last.args[2]
    /\ \E n \in Range(node_list) :
         /\ HasLink(pre.links[n], n)
         /\ Len(link_list[n]) > Len(pre.links[n])
         /\ \E i \in 1..Len(pre.links[n]) :
              link_list[n][i].weight > pre.links[n][i].weight

\* The link lists with the links to the nodes of drop left out
Without(ll, drop) == SelectSeq(ll, LAMBDA l : l.target \notin drop)

\* What C13 says of a node s that held a link to kill before
\* merge_nodes(keep, kill)
Redirected(s, keep, kill) ==
    /\ ~HasLink(link_list[s], kill)
    /\ HasLink(link_list[s], keep)
    /\ WeightTo(link_list[s], keep) =
           (IF HasLink(pre.links[s], keep)
            THEN WeightTo(pre.links[s], keep) ELSE 0)
           + WeightTo(pre.links[s], kill)
    /\ Without(link_list[s], {keep, kill})
           = Without(pre.links[s], {keep, kill})
    /\ SumWeights(link_list[s]) = SumWeights(pre.links[s])

\* C13 as stated: after merge_nodes(keep, kill) on two distinct nodes of
\* the graph, every other node s of the graph that held a link to kill has
\* no link to kill and a link to keep weighing its previous weight to keep
\* plus that link's weight, its other links and its total weight unchanged.
C13_Original ==
    MergedDistinctNodes =>
        \A s \in Range(pre.nodes) \ {last.args[1], last.args[2]} :
            HasLink(pre.links[s], last.args[2])
                => Redirected(s, last.args[1], last.args[2])

RemovedAbsent ==
    last.op = "remove_node" /\ ~InGraph(pre.nodes, last.args[1])

\* C14: remove_node(n) with n not in the collection raises nothing and
\* leaves the node collection, every link list (links to n included) and
\* current_node as they were.
C14_RemoveAbsentIsNoOp ==
    RemovedAbsent =>
        /\ last.err = "none"
        /\ node_list = pre.nodes
        /\ link_list = pre.links
        /\ current_node = pre.current

\* C14 witness: remove_node(n) was called for a node outside the collection
\* that a node of the collection links to.
C14_Witness ==
    /\ RemovedAbsent
    /\ node_list # <<>>
    /\ \E m \in Range(node_list) : HasLink(link_list[m], last.args[1])

\* Whether a is b with some entries left out, the others in their order
RECURSIVE IsSubSeq(_, _)
IsSubSeq(a, b) ==
    IF a = <<>> THEN TRUE
    ELSE IF b = <<>> THEN FALSE
    ELSE IF Head(a) = Head(b) THEN IsSubSeq(Tail(a), Tail(b))
    ELSE IsSubSeq(a, Tail(b))

ValuedOther(ll, v) == SelectSeq(ll, LAMBDA l : value(l.target) # v)
CountOther(nodes, v) ==
    Cardinality({i \in 1..Len(nodes) : value(nodes[i]) # v})

\* C15: after remove_node_by_value(v) no node of the collection has value
\* v, no node of the collection has a link to a node of value v, the nodes
\* left are those of another value in their former order, every link to a
\* node of another value is as it was, and the collection is unchanged
\* when it held no node of value v.
C15_RemoveByValue ==
    last.op = "remove_node_by_value" =>
        LET v == last.args[1]
        IN  /\ last.err = "none"
            /\ \A n \in Range(node_list) :
                 /\ value(n) # v
                 /\ \A t \in Targets(link_list[n]) : value(t) # v
            /\ IsSubSeq(node_list, pre.nodes)
            /\ Len(node_list) = CountOther(pre.nodes, v)
            /\ \A n \in Nodes :
                 ValuedOther(link_list[n], v) = ValuedOther(pre.links[n], v)
            /\ (\A n \in Range(pre.nodes) : value(n) # v)
                 => node_list = pre.nodes

\* C15 witness: a call that took a node out of the collection and pruned,
\* from a node left in it, a link to a node of that value outside the
\* collection, leaving that node a link to a node of another value.
C15_Witness ==
    /\ last.op = "remove_node_by_value"
    /\ Len(node_list) < Len(pre.nodes)
    /\ \E n \in Range(node_list) :
         /\ link_list[n] # <<>>
         /\ \E t \in Targets(pre.links[n]) :
              value(t) = last.args[1] /\ ~InGraph(pre.nodes, t)

\* What apply_noise leaves as it was: the collection, current_node, and
\* the number, the order and the targets of the links of every node
NoiseFrame ==
    /\ node_list = pre.nodes
    /\ current_node = pre.current
    /\ \A n \in Nodes :
        /\ Len(link_list[n]) = Len(pre.links[n])
        /\ \A i \in 1..Len(link_list[n]) :
            link_list[n][i].target = pre.links[n][i].target

\* The i-th link of n has gained an amount within what the call allows
NoiseWithin(n, i) ==
    LET w == pre.links[n][i].weight
        gained == link_list[n][i].weight - w
        noise_weights == last.args[1]
        uniform_amount == last.args[2]
        xs == {noise_weights[j].x : j \in 1..Len(noise_weights)}
    IN  IF noise_weights = <<>>
        THEN w > 0 =>
               /\ 0 <= gained
               /\ gained * uniform_amount[2] <= w * uniform_amount[1]
        ELSE Lowest(xs) <= gained /\ gained <= Highest(xs)

\* C22: apply_noise changes nothing but link weights; with no noise curve
\* each link of positive weight w ends within [w, w + w * uniform_amount],
\* and with a noise curve the amount added to each link lies within the
\* x-domain of the curve.  The code does not keep to it.
C22_Original ==
    last.op = "apply_noise" =>
        /\ NoiseFrame
        /\ \A n \in Range(node_list) :
            \A i \in 1..Len(link_list[n]) : NoiseWithin(n, i)

\* The weight of the link of ll to t, 0 when there is none
WeightOrZero(ll, t) == IF HasLink(ll, t) THEN WeightTo(ll, t) ELSE 0

\* What the weight of the link of n to t has grown by over the last call
Gained(n, t) == WeightOrZero(link_list[n], t) - WeightOrZero(pre.links[n], t)

\* a.add_reciprocal_link(t, w) has touched nothing but the link of a to t
\* and the link of t to a
ReciprocalFrame(a, t) ==
    /\ node_list = pre.nodes
    /\ current_node = pre.current
    /\ Without(link_list[a], {t}) = Without(pre.links[a], {t})
    /\ Without(link_list[t], {a}) = Without(pre.links[t], {a})
    /\ \A n \in Nodes \ {a, t} : link_list[n] = pre.links[n]
    /\ HasLink(link_list[a], t)
    /\ HasLink(link_list[t], a)

\* C24 as stated: a.add_reciprocal_link(t, w), for every a and t, t = a
\* included, raises the weight of a's link to t and of t's link to a by
\* exactly w each and changes no other link.
C24_Original ==
    (last.op = "add_reciprocal_link" /\ Len(last.args[2]) = 1) =>
        LET a == last.args[1]
            t == last.args[2][1]
        IN  /\ Gained(a, t) = last.args[3]
            /\ Gained(t, a) = last.args[3]
            /\ ReciprocalFrame(a, t)

\* C24 amended: for t other than a the weight of a's link to t and of t's
\* link to a grow by exactly w each, a link that was absent counting as 0;
\* for t = a the one link of a to itself grows by 2 * w; no other link
\* changes.
C24_ReciprocalLink ==
    (last.op = "add_reciprocal_link" /\ Len(last.args[2]) = 1) =>
        LET a == last.args[1]
            t == last.args[2][1]
        IN  /\ a # t => /\ Gained(a, t) = last.args[3]
                        /\ Gained(t, a) = last.args[3]
            /\ a = t => Gained(a, a) = 2 * last.args[3]
            /\ ReciprocalFrame(a, t)

\* C24 witness: a was linked to t already and t was not linked to a; both
\* links have grown by 1.0.
C24_Witness ==
    /\ last.op = "add_reciprocal_link"
    /\ last.args[3] = Unit
    /\ last.args[1] # last.args[2][1]
    /\ HasLink(pre.links[last.args[1]], last.args[2][1])
    /\ ~HasLink(pre.links[last.args[2][1]], last.args[1])
    /\ WeightTo(link_list[last.args[1]], last.args[2][1])
           = WeightTo(pre.links[last.args[1]], last.args[2][1]) + Unit
    /\ WeightTo(link_list[last.args[2][1]], last.args[1]) = Unit

\* Every link of every node of the collection targets a node of the
\* collection
LinksWithin(nodes, links) ==
    \A n \in Range(nodes) : Targets(links[n]) \subseteq Range(nodes)

\* current is unset or a node of the collection
CurrentWithin(nodes, current) == current = NoNode \/ current \in Range(nodes)

\* C25: over a call of add_nodes, pick (with no starting node or with one
\* of the graph), remove_node, remove_node_by_value or merge_nodes on a
\* graph whose links all target nodes of the graph and whose current_node
\* is unset or a node of the collection, current_node stays unset or a node
\* of the collection.  The code does not keep to it.
C25_Original ==
    (/\ last.op \in {"add_nodes", "pick", "remove_node",
                     "remove_node_by_value", "merge_nodes"}
     /\ last.op = "pick" =>
            last.args[1] \in Range(pre.nodes) \cup {NoNode}
     /\ LinksWithin(pre.nodes, pre.links)
     /\ CurrentWithin(pre.nodes, pre.current))
        => CurrentWithin(node_list, current_node)

\* Each node is listed once in the collection
ListedOnce(nodes) ==
    \A i, j \in 1..Len(nodes) : nodes[i] = nodes[j] => i = j

\* C26: if each node occurs once in the collection and every link of every
\* node of the collection targets a node of the collection, the same holds
\* after remove_node, remove_node_by_value, merge_nodes(keep, kill) with
\* keep and kill in the graph, feather_links and apply_noise.
C26_LinkClosure ==
    (/\ last.op \in {"remove_node", "remove_node_by_value", "merge_nodes",
                     "feather_links", "apply_noise"}
     /\ last.op = "merge_nodes" =>
            {last.args[1], last.args[2]} \subseteq Range(pre.nodes)
     /\ ListedOnce(pre.nodes)
     /\ LinksWithin(pre.nodes, pre.links))
        => /\ ListedOnce(node_list)
           /\ LinksWithin(node_list, link_list)

\* C26 witness: kill, with a link of its own and linked to by keep, has
\* been merged into keep in a closed graph; keep's links stay within the
\* nodes that are left.
C26_Witness ==
    /\ last.op = "merge_nodes"
    /\ last.args[1] # last.args[2]
    /\ {last.args[1], last.args[2]} \subseteq Range(pre.nodes)
    /\ ListedOnce(pre.nodes)
    /\ LinksWithin(pre.nodes, pre.links)
    /\ HasLink(pre.links[last.args[1]], last.args[2])
    /\ pre.links[last.args[2]] # <<>>
    /\ link_list[last.args[1]] # <<>>
    /\ last.args[2] \notin Range(node_list)
    /\ LinksWithin(node_list, link_list)

\* merge_nodes(keep, kill) was called with distinct nodes of a graph in
\* which every link of kill targets a node of the graph (no link list of
\* the model holds two links to one target)
MergedWithin ==
    /\ last.op = "merge_nodes"
    /\ last.args[1] # last.args[2]
    /\ {last.args[1], last.args[2]} \subseteq Range(pre.nodes)
    /\ Targets(pre.links[last.args[2]]) \subseteq Range(pre.nodes)

\* The weight mass of keep and kill has ended up in keep
MassConserved ==
    LET keep == last.args[1]
        kill == last.args[2]
    IN  /\ SumWeights(link_list[keep])
               = SumWeights(pre.links[keep]) + SumWeights(pre.links[kill])
        /\ WeightOrZero(link_list[keep], keep)
               = WeightOrZero(pre.links[keep], keep)
                   + WeightOrZero(pre.links[kill], keep)
                   + WeightOrZero(pre.links[keep], kill)
                   + WeightOrZero(pre.links[kill], kill)

\* C27: merge_nodes conserves weight mass: for distinct keep and kill of a
\* graph in which every link of kill targets a node of the graph, the sum
\* of keep's weights after the call is the sum of keep's and of kill's
\* before, and keep's link to itself holds what keep->keep, kill->keep,
\* keep->kill and kill->kill held.  The code does not keep to it.
C27_Original == MergedWithin => MassConserved

\* The node the last pick traversed from; NoNode in the bootstrap case
PickedFrom == StartOf(last.args[1], pre.current)

\* C28: a pick from a node whose link list is empty raises the error of an
\* empty list (ValueError), a pick from a node whose link weights sum to 0
\* or less raises ProbabilityUndefinedError, and in both cases
\* current_node, the collection and all links are as they were before the
\* call.
C28_PickFailsCleanly ==
    (last.op = "pick" /\ PickedFrom # NoNode) =>
        LET ll == pre.links[PickedFrom]
        IN  /\ ll = <<>> => last.err = "ValueError"
            /\ (ll # <<>> /\ SumWeights(ll) <= 0)
                   => last.err = "ProbabilityUndefinedError"
            /\ (ll = <<>> \/ SumWeights(ll) <= 0) =>
                   /\ last.result = NoNode
                   /\ current_node = pre.current
                   /\ node_list = pre.nodes
                   /\ link_list = pre.links

\* C28 witness: pick() from the current node, whose only links weigh 0,
\* has raised ProbabilityUndefinedError and current_node is still that node.
C28_Witness ==
    /\ last.op = "pick"
    /\ last.args[1] = NoNode
    /\ pre.current # NoNode
    /\ pre.links[pre.current] # <<>>
    /\ last.err = "ProbabilityUndefinedError"
    /\ current_node = pre.current

----------------------------------------------------------------------------
(* Properties of from_string, checked under SpecString.  Token positions  *)
(* count from 0; the node made for position i is node i + 1.              *)

NodeAt(position) == position + 1
PositionOf(node) == node - 1
Unmerged == built_from.built /\ ~built_from.merge_same_words
TokenCount == Len(built_from.words)
GivenWeights ==
    IF built_from.default THEN [k \in {1} |-> Unit]
    ELSE built_from.distance_weights

\* The offsets of d that take position i of n to position j
OffsetsTo(d, i, j, n) == {k \in DOMAIN d : (i + k) % n = j}

RECURSIVE SumOver(_, _)
SumOver(d, keys) ==
    IF keys = {} THEN 0
    ELSE LET k == CHOOSE x \in keys : TRUE
         IN  d[k] + SumOver(d, keys \ {k})

\* C6: from_string without merge_same_words makes one node per token, in
\* source order; node i has a link to node j exactly when some offset of
\* distance_weights takes i to j modulo the token count, and the weight of
\* that one link is the sum of the weights of all such offsets; with the
\* default weights every node has exactly one link, of weight 1, to the
\* node after it, the last node to the first.
C6_FromStringLinks ==
    Unmerged =>
        /\ node_list = [i \in 1..TokenCount |-> i]
        /\ node_value = built_from.words
        /\ \A i, j \in 0..(TokenCount - 1) :
             LET keys == OffsetsTo(GivenWeights, i, j, TokenCount)
                 ll == link_list[NodeAt(i)]
             IN  /\ HasLink(ll, NodeAt(j)) <=> keys # {}
                 /\ keys # {} =>
                      /\ Len(Filter(ll, NodeAt(j))) = Len(ll) - 1
                      /\ WeightTo(ll, NodeAt(j)) = SumOver(GivenWeights, keys)
        /\ built_from.default =>
             \A i \in 0..(TokenCount - 1) :
                link_list[NodeAt(i)] =
                    <<Link(NodeAt((i + 1) % TokenCount), Unit)>>

\* C6 witness: a graph built without merging from a source in which a word
\* occurs twice, with weights in which a negative offset wraps backwards
\* from the first token and two offsets meet on one target.
C6_Witness ==
    /\ Unmerged
    /\ ~built_from.default
    /\ TokenCount >= 2
    /\ \E i, j \in 1..TokenCount :
         i # j /\ built_from.words[i] = built_from.words[j]
    /\ \E k \in DOMAIN GivenWeights : k < 0
    /\ \E j \in 0..(TokenCount - 1) :
         /\ Cardinality(OffsetsTo(GivenWeights, 0, j, TokenCount)) >= 2
         /\ HasLink(link_list[NodeAt(0)], NodeAt(j))

DefaultChain ==
    Unmerged /\ built_from.default /\ TokenCount >= 1

\* A pick on the default chain succeeds and, unless it is the first, it
\* returns the node after the one the pick before it returned.
PickMovesOn ==
    (DefaultChain /\ last.op = "pick") =>
        /\ last.err = "none"
        /\ InGraph(node_list, last.result)
        /\ pre.current # NoNode =>
             PositionOf(last.result) =
                 (PositionOf(pre.current) + 1) % TokenCount

\* C7: on a graph from_string built with the default weights and without
\* merging from at least one token, no pick fails, every pick after the
\* first returns the node at the position after the previous one modulo
\* the token count, and as picks go on every token's node is returned
\* again and again.
C7_LinearCycle ==
    /\ [](PickMovesOn)
    /\ \A p \in 0..(MaxTokens - 1) :
         []((DefaultChain /\ p < TokenCount) =>
               <>(last.op = "pick" /\ last.result = NodeAt(p)))

\* C7 witness: on a default chain of at least two tokens a pick has just
\* wrapped from the last token's node to the first.
C7_Witness ==
    /\ DefaultChain
    /\ TokenCount >= 2
    /\ last.op = "pick"
    /\ last.err = "none"
    /\ pre.current = NodeAt(TokenCount - 1)
    /\ last.result = NodeAt(0)

Merged == built_from.built /\ built_from.merge_same_words

\* The pairs of a token position holding word a and an offset of d that
\* leads from it to a position holding word b
PairsFromTo(words, d, a, b) ==
    {p \in (0..(Len(words) - 1)) \X DOMAIN d :
        /\ words[p[1] + 1] = a
        /\ words[((p[1] + p[2]) % Len(words)) + 1] = b}

RECURSIVE SumPairs(_, _)
SumPairs(d, pairs) ==
    IF pairs = {} THEN 0
    ELSE LET p == CHOOSE x \in pairs : TRUE
         IN  d[p[2]] + SumPairs(d, pairs \ {p})

\* The position at which word w first occurs in words
FirstOccurrence(words, w) ==
    CHOOSE i \in 1..Len(words) :
        words[i] = w /\ \A j \in 1..(i - 1) : words[j] # w

\* C16: from_string with merge_same_words makes exactly one node per
\* distinct token value, in order of first occurrence; every link targets
\* one of these nodes; the link from a's node to b's node weighs the sum of
\* the weights of the offsets that lead from a position holding a to a
\* position holding b, over all such positions (no link when there is no
\* such offset).
C16_MergedWords ==
    Merged =>
        LET words == built_from.words
            count == Len(node_value)
        IN  /\ node_list = [i \in 1..count |-> i]
            /\ Range(node_value) = Range(words)
            /\ \A m, n \in 1..count :
                 m < n => /\ node_value[m] # node_value[n]
                          /\ FirstOccurrence(words, node_value[m])
                                 < FirstOccurrence(words, node_value[n])
            /\ \A m \in 1..count : Targets(link_list[m]) \subseteq 1..count
            /\ \A m, n \in 1..count :
                 LET pairs == PairsFromTo(words, GivenWeights,
                                          node_value[m], node_value[n])
                     ll == link_list[m]
                 IN  /\ HasLink(ll, n) <=> pairs # {}
                     /\ pairs # {} =>
                          /\ Len(Filter(ll, n)) = Len(ll) - 1
                          /\ WeightTo(ll, n) = SumPairs(GivenWeights, pairs)

\* C16 witness: a graph built with merging from a source in which a word
\* occurs twice, in which a link sums the weights met at two positions.
C16_Witness ==
    /\ Merged
    /\ ~built_from.default
    /\ Len(node_list) = 2
    /\ TokenCount = 3
    /\ \E m, n \in 1..Len(node_value) :
         /\ m # n
         /\ HasLink(link_list[m], n)
         /\ Cardinality({p[1] : p \in PairsFromTo(built_from.words,
                GivenWeights, node_value[m], node_value[n])}) >= 2

----------------------------------------------------------------------------
(* Properties of the curves, checked under SpecCurve *)

Strict(curve) == \A i \in 1..(Len(curve) - 1) : curve[i].x < curve[i + 1].x
First(curve) == curve[1]
Final(curve) == curve[Len(curve)]
InDomain(curve, x) == First(curve).x <= x /\ x <= Final(curve).x

\* A call bound_weights(curve, min, max) on a curve of two or more points
\* of strictly increasing x, with min <= max both within the curve's domain
BoundedWithinDomain ==
    /\ last.op = "bound_weights"
    /\ Len(last.args[1]) >= 2
    /\ Strict(last.args[1])
    /\ last.args[2] # <<>>
    /\ last.args[3] # <<>>
    /\ last.args[2][1] <= last.args[3][1]
    /\ InDomain(last.args[1], last.args[2][1])
    /\ InDomain(last.args[1], last.args[3][1])

\* C17: such a call returns a curve whose x values lie within the bounds,
\* that starts at min and ends at max, that holds every point of the
\* curve within the bounds, and whose other points are the bounds with the
\* y _linear_interp gives for them on the curve.
C17_Original ==
    BoundedWithinDomain =>
        LET curve == last.args[1]
            min == last.args[2][1]
            max == last.args[3][1]
            bounded == last.result
        IN  /\ last.err = "none"
            /\ bounded # <<>>
            /\ \A i \in 1..Len(bounded) :
                 min <= bounded[i].x /\ bounded[i].x <= max
            /\ First(bounded).x = min
            /\ Final(bounded).x = max
            /\ \A i \in 1..Len(curve) :
                 (min <= curve[i].x /\ curve[i].x <= max)
                     => curve[i] \in Range(bounded)
            /\ \A i \in 1..Len(bounded) :
                 bounded[i] \notin Range(curve) =>
                     /\ bounded[i].x \in {min, max}
                     /\ linear_interp(curve, bounded[i].x) =
                            [err |-> "none", result |-> bounded[i].y]

\* No point of the curve lies outside the bounds that are given
NoneOutside(curve, minimum, maximum) ==
    \A i \in 1..Len(curve) :
        /\ minimum # <<>> => minimum[1] <= curve[i].x
        /\ maximum # <<>> => curve[i].x <= maximum[1]

C19_Original ==
    last.op = "_linear_interp" =>
        \A k \in 1..Len(last.args[1]) :
            last.args[1][k].x = last.args[2] =>
                /\ last.err = "none"
                /\ last.result = last.args[1][k].y

\* The segments of the curve, by the index of their first point, that join
\* points of different x and hold x
SegmentsAt(curve, x) ==
    {i \in 1..(Len(curve) - 1) :
        /\ curve[i].x < curve[i + 1].x
        /\ curve[i].x <= x
        /\ x <= curve[i + 1].x}

\* Whether segment i of a curve of whole y values passes above (px, py)
PassesAbove(curve, i, px, py) ==
    (curve[i + 1].y.num - curve[i].y.num) * (px - curve[i].x)
        > (py - curve[i].y.num) * (curve[i + 1].x - curve[i].x)

FirstOf(S) == CHOOSE i \in S : \A j \in S : i <= j

\* C20: _linear_interp raises ProbabilityUndefinedError for every x outside
\* the curve's domain and whenever no segment between points of different
\* x holds x; _point_under_curve raises nothing and returns TRUE exactly
\* when the interpolation at px is defined and higher than py, so FALSE
\* for every px outside the domain however low py is.
C20_UndefinedIsNotUnder ==
    /\ last.op = "_linear_interp" =>
         LET curve == last.args[1]
             x == last.args[2]
         IN  /\ ~InDomain(curve, x) => last.err = "ProbabilityUndefinedError"
             /\ SegmentsAt(curve, x) = {}
                  => last.err = "ProbabilityUndefinedError"
    /\ last.op = "_point_under_curve" =>
         LET curve == last.args[1]
             px == last.args[2].x
             py == last.args[2].y.num
             S == SegmentsAt(curve, px)
         IN  /\ last.err = "none"
             /\ last.result \in BOOLEAN
             /\ last.result <=>
                    (S # {} /\ PassesAbove(curve, FirstOf(S), px, py))
             /\ ~InDomain(curve, px) => ~last.result

\* C20 witness: _point_under_curve returned FALSE for a point below every
\* point of the curve whose x is outside the curve's domain.
C20_Witness ==
    /\ last.op = "_point_under_curve"
    /\ ~InDomain(last.args[1], last.args[2].x)
    /\ Len(last.args[1]) >= 2
    /\ \A i \in 1..Len(last.args[1]) :
         FracGreater(last.args[1][i].y, last.args[2].y)
    /\ last.result = FALSE

\* The index of the last point of the curve whose x is x
LastAt(curve, x) ==
    CHOOSE k \in 1..Len(curve) :
        /\ curve[k].x = x
        /\ \A m \in (k + 1)..Len(curve) : curve[m].x # x

\* Consecutive points of the curve share the x value x
SharedX(curve, x) ==
    \E k \in 1..(Len(curve) - 1) : curve[k].x = x /\ curve[k + 1].x = x

\* C29: where consecutive points of the curve share the x value x0 and
\* _linear_interp(curve, x0) returns, it returns the y of the last point
\* whose x is x0, wherever in the curve the repeated x lies.  The code does
\* not keep to it.
C29_Original ==
    (/\ last.op = "_linear_interp"
     /\ last.err = "none"
     /\ SharedX(last.args[1], last.args[2]))
        => last.result = last.args[1][LastAt(last.args[1], last.args[2])].y

----------------------------------------------------------------------------
(* Properties of weighted_rand, checked under SpecRoll *)

RollXs == {last.args[1][i].x : i \in 1..Len(last.args[1])}
RollXMin == CHOOSE x \in RollXs : \A y \in RollXs : x <= y
RollXMax == CHOOSE x \in RollXs : \A y \in RollXs : y <= x
RollYMax ==
    CHOOSE y \in {last.args[1][i].y.num : i \in 1..Len(last.args[1])} :
        \A i \in 1..Len(last.args[1]) : last.args[1][i].y.num <= y

\* What holds of a call of weighted_rand at every point of its run
RollSafe ==
    last.op = "weighted_rand" =>
        /\ roll.pc \in {"loop", "returned"}
        /\ roll.attempt_count <= AttemptCap
        /\ Len(last.args[1]) = 1 =>
             /\ roll.pc = "returned"
             /\ roll.attempt_count = 0
             /\ roll.sample = <<>>
             /\ roll.result = last.args[1][1].x
        /\ roll.pc = "returned" =>
             /\ RollXMin <= roll.result
             /\ roll.result <= RollXMax
             /\ roll.via \in {"one weight", "sample", "random weight point"}
        /\ (roll.pc = "returned" /\ roll.via = "sample") =>
             LET sample == roll.sample[1]
                 S == SegmentsAt(roll.weights, sample.x)
             IN  /\ roll.result = sample.x
                 /\ roll.attempt_count < AttemptCap
                 /\ RollXMin <= sample.x /\ sample.x <= RollXMax
                 /\ sample.y.num \in Uniform(0, RollYMax)
                 /\ S # {}
                 /\ PassesAbove(roll.weights, FirstOf(S), sample.x,
                                sample.y.num)
        /\ (roll.pc = "returned" /\ roll.via = "random weight point") =>
             /\ roll.attempt_count = AttemptCap
             /\ roll.result \in RollXs
        /\ (\A i \in 1..Len(last.args[1]) : last.args[1][i].y.num <= 0) =>
             roll.via # "sample"

----------------------------------------------------------------------------
(* Properties of the earlier add_nodes, checked under SpecOld *)

\* The number of entries of nodes that are n
Listed(nodes, n) == Cardinality({j \in 1..Len(nodes) : nodes[j] = n})

\* The i-th incoming node shares its name with no node that was in the
\* collection and with no node that came in before it
NewName(i) ==
    LET add_list == last.args[1]
    IN  /\ \A m \in Range(pre.nodes) : value(m) # value(add_list[i])
        /\ \A j \in 1..(i - 1) : value(add_list[j]) # value(add_list[i])

\* Every incoming node of a merging add_nodes is represented in the
\* graph: one whose name a node of the collection bears is not appended,
\* and one whose name collides with none is appended
MergingAddRepresents ==
    (last.op = "add_nodes" /\ last.args[2]) =>
        LET add_list == last.args[1]
        IN  \A i \in 1..Len(add_list) :
              /\ \E m \in Range(node_list) : value(m) = value(add_list[i])
              /\ (\E m \in Range(pre.nodes) : value(m) = value(add_list[i]))
                   => Listed(node_list, add_list[i])
                        <= Listed(pre.nodes, add_list[i])
              /\ NewName(i) => add_list[i] \in Range(node_list)

\* The graph from_string builds holds a node for every word
FromStringHoldsWords ==
    (last.op = "from_string" /\ built_from.built) =>
        \A i \in 1..Len(built_from.words) :
            \E m \in Range(node_list) : value(m) = built_from.words[i]

\* C23: add_nodes with merging by name leaves every incoming node
\* represented in the graph: a node whose name a node of the collection
\* bears is merged into it and not appended, and a node whose name collides
\* with none is appended, so that adding to an empty graph, as from_string
\* does, gives a graph that holds the nodes.  The code does not keep to it.
C23_Original == MergingAddRepresents /\ FromStringHoldsWords

----------------------------------------------------------------------------
(* Properties of the discrete chooser, checked under SpecRand *)

Chose == last.op = "weighted_choice"
ChosenFrom == last.args[1]
ChosenIndex == last.result[1]
ChosenOutcome == last.result[2]

\* C8 as stated: whenever weighted_choice returns (the list is not empty
\* and its strength sum is positive), for every sample in [0, sum], both
\* ends included, the option returned has a strictly positive strength.
C8_Original ==
    (Chose /\ last.err = "none") => ChosenFrom[ChosenIndex].strength > 0

\* C9: weighted_choice raises ValueError on the empty list, raises
\* ProbabilityUndefinedError exactly when the list is not empty and its
\* strength sum is <= 0, and otherwise returns an outcome of the list (that
\* of the option at the index it reports).
C9_ChoiceOutcome ==
    Chose =>
        /\ last.err = "ValueError" <=> Len(ChosenFrom) = 0
        /\ last.err = "ProbabilityUndefinedError" <=>
               (Len(ChosenFrom) > 0 /\ SumStrengths(ChosenFrom) <= 0)
        /\ (Len(ChosenFrom) > 0 /\ SumStrengths(ChosenFrom) > 0) =>
               /\ last.err = "none"
               /\ ChosenIndex \in 1..Len(ChosenFrom)
               /\ ChosenFrom[ChosenIndex].outcome = ChosenOutcome

\* C9 witness: a list that opens with a negative strength, sampled at the
\* far end of [0, sum], returned its last option.
C9_Witness ==
    /\ Chose
    /\ last.err = "none"
    /\ Len(ChosenFrom) = MaxOptions
    /\ ChosenFrom[1].strength < 0
    /\ last.args[2] = 2 * SumStrengths(ChosenFrom)
    /\ ChosenIndex = MaxOptions

Count(seq, x) == Cardinality({i \in 1..Len(seq) : seq[i] = x})
OutcomesOf(weights) == [i \in 1..Len(weights) |-> weights[i].outcome]
Ordered == last.op = "weighted_order"
AllPositive(weights) == \A i \in 1..Len(weights) : weights[i].strength > 0

\* C10: weighted_order leaves its input list as it was; on an input whose
\* strengths are all > 0 no call of weighted_choice fails, every call takes
\* one item from the working list to the output, so that it returns after
\* exactly len(input) calls, and the list returned has the length and the
\* outcomes, counted with repetition, of the input; the empty input gives
\* the empty list.
C10_OrderIsPermutation ==
    Ordered =>
        /\ order.weights = last.args[1]
        /\ AllPositive(last.args[1]) =>
            /\ order.pc \in {"loop", "returned"}
            /\ Len(order.output_list) = order.calls
            /\ Len(order.working_list) + order.calls = Len(last.args[1])
            /\ order.pc = "returned" =>
                /\ order.calls = Len(last.args[1])
                /\ \A x \in Outcomes :
                       Count(order.output_list, x)
                           = Count(OutcomesOf(last.args[1]), x)
        /\ last.args[1] = <<>> =>
               order.pc = "returned" /\ order.output_list = <<>>

\* C10 witness: weighted_order returned a list of MaxOptions items, some
\* outcome among them repeated, in another order than the input's.
C10_Witness ==
    /\ Ordered
    /\ order.pc = "returned"
    /\ Len(last.args[1]) = MaxOptions
    /\ \E x \in Outcomes : Count(order.output_list, x) > 1
    /\ order.output_list # OutcomesOf(last.args[1])

\* The position on the line at which the i-th option starts
Cumulative(weights, i) == SumStrengths(SubSeq(weights, 1, i - 1))

\* The draw (given doubled) lies on the stretch of the i-th option, both
\* ends included
OnStretch(weights, sample2, i) ==
    /\ 2 * Cumulative(weights, i) <= sample2
    /\ sample2 <= 2 * (Cumulative(weights, i) + weights[i].strength)

\* C30: the AssertionError after the scan of weighted_choice is never
\* raised: for every list that is not empty and whose strengths, of any
\* sign and in any order, sum to S > 0, and every draw in [0, S], the draw
\* lies on the stretch of some option, the scan returns the first such
\* option, and the index returned is that of the outcome returned.
C30_ScanAlwaysReturns ==
    (Chose /\ Len(ChosenFrom) > 0 /\ SumStrengths(ChosenFrom) > 0) =>
        /\ last.err # "AssertionError"
        /\ last.err = "none"
        /\ \E i \in 1..Len(ChosenFrom) :
               OnStretch(ChosenFrom, last.args[2], i)
        /\ ChosenIndex \in 1..Len(ChosenFrom)
        /\ OnStretch(ChosenFrom, last.args[2], ChosenIndex)
        /\ \A i \in 1..(ChosenIndex - 1) :
               ~OnStretch(ChosenFrom, last.args[2], i)
        /\ ChosenFrom[ChosenIndex].outcome = ChosenOutcome

\* C30 witness: a list holding a negative, a zero and a positive strength
\* returned an option that is not its first, the draw lying short of the
\* far end of [0, S].
C30_Witness ==
    /\ Chose
    /\ last.err = "none"
    /\ \E i \in 1..Len(ChosenFrom) : ChosenFrom[i].strength < 0
    /\ \E i \in 1..Len(ChosenFrom) : ChosenFrom[i].strength = 0
    /\ \E i \in 1..Len(ChosenFrom) : ChosenFrom[i].strength > 0
    /\ last.args[2] < 2 * SumStrengths(ChosenFrom)
    /\ ChosenIndex > 1
    /\ ~OnStretch(ChosenFrom, last.args[2], 1)

====
